---- MODULE Spec2Model ----
(***************************************************************************)
(* Elevation lookup engine of opentopodata (opentopodata/backend.py).      *)
(*                                                                         *)
(* Number representation.  Coordinates are integers.  Every raster of the  *)
(* model has an even resolution, so the half-pixel inset res/2 is an exact *)
(* integer.  A fractional pixel coordinate (row or col) is kept as its     *)
(* numerator over the resolution of its axis: the stored integer n stands  *)
(* for the pixel coordinate n/res.  The shift by 0.5 is then the exact     *)
(* subtraction of res/2 and the clip bound height-1 is (height-1)*res.     *)
(*                                                                         *)
(* Python sequences are 0-based, the sequences here are 1-based.           *)
(***************************************************************************)
EXTENDS Integers, Sequences, FiniteSets, TLC

\* ------------------------------------------------------------------ bounds

\* Longest query batch.
MaxPoints == 2

\* Latitudes and longitudes of a batch routed over several tiles.
MaxCoord == 1
Coords == 0..MaxCoord

\* Latitudes and longitudes of a batch sent to a single-tile dataset.
MaxTileCoord == 4
TileCoords == 0..MaxTileCoord

\* Projected coordinates handed to the bounds validator directly.
MaxXY == 3
XYCoords == 0..MaxXY

\* ------------------------------------------------------------ value shapes

\* Python's None where a path is expected.
None == "None"

\* A float, None and NaN where an elevation is expected.
Val(v) == [tag |-> "float", v |-> v]
NoneV == [tag |-> "None", v |-> 0]
NaN == [tag |-> "nan", v |-> 0]

\* The outcome of a call that may raise.
NoError == [kind |-> "ok", msg |-> "", lat |-> 0, lon |-> 0]
InputError(msg, lat, lon) == [kind |-> "InputError", msg |-> msg, lat |-> lat, lon |-> lon]
IOError == [kind |-> "IOError", msg |-> "read failed", lat |-> 0, lon |-> 0]

Min(a, b) == IF a <= b THEN a ELSE b
Max(a, b) == IF a >= b THEN a ELSE b

\* ------------------------------------------------------------ collaborators

\* The tiles of the dataset, as the raster engine reports them: EPSG code,
\* outer-edge bounding box, resolution (x_res, y_res) and size in pixels.
\* A is geographic, B is projected, C carries an EPSG code out of range.
Paths == {"A", "B", "C"}

Raster ==
  [A |-> [epsg |-> 4326, left |-> 0, right |-> 4, bottom |-> 0, top |-> 4,
          res |-> <<2, 2>>, width |-> 2, height |-> 2],
   B |-> [epsg |-> 32651, left |-> 11, right |-> 15, bottom |-> 21, top |-> 27,
          res |-> <<2, 2>>, width |-> 2, height |-> 3],
   C |-> [epsg |-> 0, left |-> 0, right |-> 4, bottom |-> 0, top |-> 4,
          res |-> <<2, 2>>, width |-> 2, height |-> 2]]

\* Substitute elevations a fill policy may return for one point.
FillResults == {Val(0), Val(7), NoneV}

Kernels == {"nearest", "bilinear"}

\* ----------------------------------------------------------- _reproject_latlons

WGS84_LATLON_EPSG == 4326

\* pyproj's forward projection of one point: an affine map that moves every
\* point and stretches both axes.
Proj(epsg, lon, lat) == <<10 + 2 * lon, 20 + 2 * lat>>

\* A reprojection whose EPSG check has no upper end.
_reproject_latlons_no_upper(lats, lons, epsg) ==
  IF epsg = WGS84_LATLON_EPSG
  THEN [err |-> NoError, x |-> lons, y |-> lats, proj_calls |-> 0]
  ELSE IF ~(1024 <= epsg)
  THEN [err |-> InputError("Dataset has invalid projection.", 0, 0),
        x |-> <<>>, y |-> <<>>, proj_calls |-> 0]
  ELSE [err |-> NoError,
        x |-> [i \in DOMAIN lons |-> Proj(epsg, lons[i], lats[i])[1]],
        y |-> [i \in DOMAIN lats |-> Proj(epsg, lons[i], lats[i])[2]],
        proj_calls |-> 1]

_reproject_latlons(lats, lons, epsg) ==
  IF epsg = WGS84_LATLON_EPSG
  THEN [err |-> NoError, x |-> lons, y |-> lats, proj_calls |-> 0]
  ELSE IF ~(1024 <= epsg /\ epsg <= 32767)
  THEN [err |-> InputError("Dataset has invalid projection.", 0, 0),
        x |-> <<>>, y |-> <<>>, proj_calls |-> 0]
  ELSE [err |-> NoError,
        x |-> [i \in DOMAIN lons |-> Proj(epsg, lons[i], lats[i])[1]],
        y |-> [i \in DOMAIN lats |-> Proj(epsg, lons[i], lats[i])[2]],
        proj_calls |-> 1]

\* --------------------------------------------- _validate_points_lie_within_raster

\* Python's all() over a list of booleans.
All(b) == \A i \in DOMAIN b : b[i]

\* numpy.argmax over a boolean array: the index of the first maximum, that
\* is of the first True, and the first index when every entry is False.
ArgMax(b) ==
  IF \E i \in DOMAIN b : b[i]
  THEN CHOOSE i \in DOMAIN b : b[i] /\ \A j \in DOMAIN b : b[j] => i <= j
  ELSE 1

\* The extent without its half-pixel inset on the left.
x_min_outer(bounds, res) == Min(bounds.left, bounds.right)

x_min(bounds, res) == Min(bounds.left, bounds.right) + res[1] \div 2
x_max(bounds, res) == Max(bounds.left, bounds.right) - res[1] \div 2
y_min(bounds, res) == Min(bounds.top, bounds.bottom) + res[2] \div 2
y_max(bounds, res) == Max(bounds.top, bounds.bottom) - res[2] \div 2

\* Exclusive bounds.
InBounds_strict(vs, lo, hi) == [i \in DOMAIN vs |-> vs[i] > lo /\ vs[i] < hi]

InBounds(vs, lo, hi) == [i \in DOMAIN vs |-> vs[i] >= lo /\ vs[i] <= hi]

\* A validator that tests the display coordinates.
_validate_display_coordinates(xs, ys, lats, lons, bounds, res) ==
  LET x_in_bounds == InBounds(lons, x_min(bounds, res), x_max(bounds, res))
      y_in_bounds == InBounds(lats, y_min(bounds, res), y_max(bounds, res))
  IN  IF ~All(y_in_bounds)
      THEN LET i_oob == ArgMax(y_in_bounds)
           IN  InputError("latitude outside of raster bounds", lats[i_oob], lons[i_oob])
      ELSE IF ~All(x_in_bounds)
      THEN LET i_oob == ArgMax(x_in_bounds)
           IN  InputError("longitude outside of raster bounds", lats[i_oob], lons[i_oob])
      ELSE NoError

\* A validator that checks the x axis first.
_validate_longitude_first(xs, ys, lats, lons, bounds, res) ==
  LET x_in_bounds == InBounds(xs, x_min(bounds, res), x_max(bounds, res))
      y_in_bounds == InBounds(ys, y_min(bounds, res), y_max(bounds, res))
  IN  IF ~All(x_in_bounds)
      THEN LET i_oob == ArgMax(x_in_bounds)
           IN  InputError("longitude outside of raster bounds", lats[i_oob], lons[i_oob])
      ELSE IF ~All(y_in_bounds)
      THEN LET i_oob == ArgMax(y_in_bounds)
           IN  InputError("latitude outside of raster bounds", lats[i_oob], lons[i_oob])
      ELSE NoError

_validate_points_lie_within_raster(xs, ys, lats, lons, bounds, res) ==
  LET x_in_bounds == InBounds(xs, x_min(bounds, res), x_max(bounds, res))
      y_in_bounds == InBounds(ys, y_min(bounds, res), y_max(bounds, res))
  IN  IF ~All(y_in_bounds)
      THEN LET i_oob == ArgMax(y_in_bounds)
           IN  InputError("latitude outside of raster bounds", lats[i_oob], lons[i_oob])
      ELSE IF ~All(x_in_bounds)
      THEN LET i_oob == ArgMax(x_in_bounds)
           IN  InputError("longitude outside of raster bounds", lats[i_oob], lons[i_oob])
      ELSE NoError

\* ------------------------------------------------------ _get_elevation_from_path

\* Gather lats[indices] (numpy indexing with a list of indices).
Take(vs, indices) == [k \in DOMAIN indices |-> vs[indices[k]]]

\* f.index(xs, ys, op=_noop) of a north-up raster: the inverse geotransform,
\* not rounded; (0, 0) is the upper-left outer corner.  Numerators over res.
Index(f, x, y) == [row |-> f.top - y, col |-> x - f.left]

\* rows - 0.5 and cols - 0.5.
Shift(n, res) == n - res \div 2

\* numpy clip(0, size - 1), on numerators over res.
Clip(n, size, res) == Max(0, Min(n, (size - 1) * res))

PixelRows(f, ys) == [i \in DOMAIN ys |-> Clip(Shift(Index(f, 0, ys[i]).row, f.res[2]), f.height, f.res[2])]
PixelCols(f, xs) == [i \in DOMAIN xs |-> Clip(Shift(Index(f, xs[i], 0).col, f.res[1]), f.width, f.res[1])]

\* The raster content: tile B has one NODATA cell, the upper-left one; every
\* other cell lies on a plane that differs from tile to tile.
NoData(path, R, C) == path = "B" /\ R = 0 /\ C = 0
Base(path) == IF path = "A" THEN 100 ELSE IF path = "B" THEN 200 ELSE 300
Plane(path, rn, cn) == Base(path) + 10 * rn + cn

\* f.read of the 1x1 window at (col, row) with masked=True, then
\* np.ma.filled(z_array, np.nan)[0][0].  nearest reads the one nearest cell;
\* bilinear blends the cells around the position and is masked as soon as
\* one of them is NODATA.
Read(path, rn, cn, interpolation) ==
  LET f == Raster[path]
      ry == f.res[2]
      rx == f.res[1]
      Rlo == rn \div ry
      Rhi == (rn + ry - 1) \div ry
      Clo == cn \div rx
      Chi == (cn + rx - 1) \div rx
      Rnear == (rn + ry \div 2) \div ry
      Cnear == (cn + rx \div 2) \div rx
  IN  IF interpolation = "bilinear"
      THEN IF \E R \in {Rlo, Rhi}, C \in {Clo, Chi} : NoData(path, R, C)
           THEN NaN
           ELSE Val(Plane(path, rn, cn))
      ELSE IF NoData(path, Rnear, Cnear)
           THEN NaN
           ELSE Val(Plane(path, Rnear * ry, Cnear * rx))

\* A handle closed by hand on the normal path only.
ExitWith_on_return(handles, path, raised) == IF raised THEN handles ELSE handles \ {path}

\* Leaving the block of `with rasterio.open(path) as f`, normally or with an
\* exception in flight (raised): the context manager closes the handle.
ExitWith(handles, path, raised) == handles \ {path}

\* ------------------------------------------------------------------ get_elevation

\* path_to_point_index and elevations_by_path are Python dicts: sequences of
\* entries in insertion order, one entry per key.
HasKey(d, key) == \E k \in DOMAIN d : d[k].key = key
Get(d, key) == d[CHOOSE k \in DOMAIN d : d[k].key = key].val
Put(d, key, val) ==
  IF HasKey(d, key)
  THEN [k \in DOMAIN d |-> IF d[k].key = key THEN [key |-> key, val |-> val] ELSE d[k]]
  ELSE Append(d, [key |-> key, val |-> val])

\* for i, path in enumerate(paths): path_to_point_index[path].append(i)
RECURSIVE GroupPoints(_, _, _)
GroupPoints(ps, i, d) ==
  IF i > Len(ps) THEN d
  ELSE GroupPoints(ps, i + 1,
         Put(d, ps[i], Append(IF HasKey(d, ps[i]) THEN Get(d, ps[i]) ELSE <<>>, i)))

\* The keys of a dict other than None, in iteration order.
RECURSIVE TileKeys(_)
TileKeys(d) ==
  IF d = <<>> THEN <<>>
  ELSE IF Head(d).key = None THEN TileKeys(Tail(d))
  ELSE <<Head(d).key>> \o TileKeys(Tail(d))

\* An index lookup that always answers the first position.
IndexOf_head(vs, v, k) == 1

\* fill_values.index(None)
RECURSIVE IndexOf(_, _, _)
IndexOf(vs, v, k) == IF vs[k] = v THEN k ELSE IndexOf(vs, v, k + 1)

\* A scatter that forgets the index map and writes each group at its head.
RECURSIVE ScatterGroup_unmapped(_, _, _, _)
ScatterGroup_unmapped(elev, indices, z, i_path) ==
  IF i_path > Len(indices) THEN elev
  ELSE ScatterGroup_unmapped([elev EXCEPT ![i_path] = z[i_path]], indices, z, i_path + 1)

\* for i_path, i_original in enumerate(indices): elevations[i_original] = z[i_path]
RECURSIVE ScatterGroup(_, _, _, _)
ScatterGroup(elev, indices, z, i_path) ==
  IF i_path > Len(indices) THEN elev
  ELSE ScatterGroup([elev EXCEPT ![indices[i_path]] = z[i_path]], indices, z, i_path + 1)

\* for path, path_elevations in elevations_by_path.items(): ...
RECURSIVE PutBack(_, _, _, _)
PutBack(elev, ebp, ptpi, k) ==
  IF k > Len(ebp) THEN elev
  ELSE PutBack(ScatterGroup(elev, Get(ptpi, ebp[k].key), ebp[k].val, 1), ebp, ptpi, k + 1)

\* --------------------------------------------------------------------- state

VARIABLES
  lats, lons,            \* the query batch
  interpolation,         \* the kernel name
  paths,                 \* dataset.location_paths(lats, lons)
  fill_values,           \* dataset.missing_tile_elevations(...), once asked
  path_to_point_index,   \* dict: path -> indices of the points routed to it
  elevations_by_path,    \* dict: path -> elevations of its points
  pending,               \* tile paths the batch loop has not sampled yet
  path,                  \* the tile being sampled
  batch_lats, batch_lons,\* the sub-batch routed to it
  xs, ys,                \* its projected coordinates
  rows, cols,            \* its pixel coordinates, shifted and clipped
  z_all,                 \* the elevations read so far from the tile
  open_handles,          \* raster handles currently open
  sampled,               \* tiles whose sampling returned normally
  pc,                    \* position in get_elevation
  elevations,            \* the returned list, once returned
  error,                 \* the exception raised, once raised
  vcall,                 \* a direct call of _validate_points_lie_within_raster
  rcall                  \* a direct call of _reproject_latlons

vars == <<lats, lons, interpolation, paths, fill_values, path_to_point_index,
          elevations_by_path, pending, path, batch_lats, batch_lons, xs, ys,
          rows, cols, z_all, open_handles, sampled, pc, elevations, error,
          vcall, rcall>>

tileVars == <<path, batch_lats, batch_lons, xs, ys, rows, cols, z_all>>
inputVars == <<lats, lons, interpolation, paths>>
unitVars == <<vcall, rcall>>

Batches(S) == UNION {[1..n -> S] : n \in 0..MaxPoints}

NoCall == [state |-> "none"]

\* Everything get_elevation owns, before it has run a line.
Entered ==
  /\ fill_values = <<>>
  /\ path_to_point_index = <<>>
  /\ elevations_by_path = <<>>
  /\ pending = <<>>
  /\ path = None
  /\ batch_lats = <<>>
  /\ batch_lons = <<>>
  /\ xs = <<>>
  /\ ys = <<>>
  /\ rows = <<>>
  /\ cols = <<>>
  /\ z_all = <<>>
  /\ open_handles = {}
  /\ sampled = {}
  /\ elevations = <<>>
  /\ error = NoError

\* get_elevation is entered with a batch, a kernel name and a dataset whose
\* routing answer is index-aligned with the batch and otherwise arbitrary.
Init ==
  /\ lats \in Batches(Coords)
  /\ lons \in [DOMAIN lats -> Coords]
  /\ interpolation \in Kernels
  /\ paths \in [DOMAIN lats -> Paths \cup {None}]
  /\ Entered
  /\ pc = "group"
  /\ vcall = NoCall
  /\ rcall = NoCall

\* get_elevation is entered with a dataset of one tile, which routes every
\* point to it (tests, test_single_file_dataset).
InitSingleTile ==
  /\ lats \in Batches(TileCoords)
  /\ lons \in [DOMAIN lats -> TileCoords]
  /\ interpolation \in Kernels
  /\ \E p \in Paths : paths = [i \in DOMAIN lats |-> p]
  /\ Entered
  /\ pc = "group"
  /\ vcall = NoCall
  /\ rcall = NoCall

\* Lines 174-182: route the points and group their indices by path.
Group ==
  /\ pc = "group"
  /\ path_to_point_index' = GroupPoints(paths, 1, <<>>)
  /\ pending' = TileKeys(path_to_point_index')
  /\ pc' = "missing"
  /\ UNCHANGED <<inputVars, fill_values, elevations_by_path, tileVars,
                 open_handles, sampled, elevations, error, unitVars>>

\* Lines 184-197: ask the fill policy about the points routed to no tile.
CheckMissing ==
  /\ pc = "missing"
  /\ IF HasKey(path_to_point_index, None)
     THEN LET indices == Get(path_to_point_index, None)
              no_path_lats == Take(lats, indices)
              no_path_lons == Take(lons, indices)
          IN  \E fv \in [DOMAIN indices -> FillResults] :
                /\ fill_values' = fv
                /\ IF \A k \in DOMAIN fv : fv[k] # NoneV
                   THEN /\ elevations_by_path' = Put(elevations_by_path, None, fv)
                        /\ pc' = "batch"
                        /\ error' = error
                   ELSE LET i == IndexOf(fv, NoneV, 1)
                        IN  /\ error' = InputError("is outside dataset bounds.",
                                                   no_path_lats[i], no_path_lons[i])
                            /\ pc' = "raised"
                            /\ elevations_by_path' = elevations_by_path
     ELSE /\ pc' = "batch"
          /\ UNCHANGED <<fill_values, elevations_by_path, error>>
  /\ UNCHANGED <<inputVars, path_to_point_index, pending, tileVars,
                 open_handles, sampled, elevations, unitVars>>

\* Lines 200-206 and 116-121: take the next tile and open its raster.  The
\* open itself may fail, and then no handle exists.
OpenTile ==
  /\ pc = "batch"
  /\ pending # <<>>
  /\ path' = Head(pending)
  /\ batch_lats' = Take(lats, Get(path_to_point_index, path'))
  /\ batch_lons' = Take(lons, Get(path_to_point_index, path'))
  /\ z_all' = <<>>
  /\ xs' = <<>>
  /\ ys' = <<>>
  /\ rows' = <<>>
  /\ cols' = <<>>
  /\ \E ok \in BOOLEAN :
       IF ok
       THEN /\ open_handles' = open_handles \cup {path'}
            /\ pc' = "locate"
            /\ error' = error
       ELSE /\ open_handles' = open_handles
            /\ pc' = "raised"
            /\ error' = IOError
  /\ UNCHANGED <<inputVars, fill_values, path_to_point_index, elevations_by_path,
                 pending, sampled, elevations, unitVars>>

\* A sampler call wrapped in try/except: a tile that fails is skipped and
\* the batch loop goes on.
Locate_skip_failed ==
  /\ pc = "locate"
  /\ LET f == Raster[path]
         r == _reproject_latlons(batch_lats, batch_lons, f.epsg)
         v == _validate_points_lie_within_raster(r.x, r.y, batch_lats, batch_lons, f, f.res)
     IN  IF r.err # NoError \/ v # NoError
         THEN /\ pc' = "batch"
              /\ pending' = Tail(pending)
              /\ open_handles' = ExitWith(open_handles, path, TRUE)
              /\ UNCHANGED <<xs, ys, rows, cols, error>>
         ELSE /\ xs' = r.x
              /\ ys' = r.y
              /\ rows' = PixelRows(f, r.y)
              /\ cols' = PixelCols(f, r.x)
              /\ pc' = "read"
              /\ UNCHANGED <<open_handles, error, pending>>
  /\ UNCHANGED <<inputVars, fill_values, path_to_point_index, elevations_by_path,
                 path, batch_lats, batch_lons, z_all, sampled,
                 elevations, unitVars>>

\* Lines 122-137: reproject, validate, and compute the pixel coordinates.
Locate ==
  /\ pc = "locate"
  /\ LET f == Raster[path]
         r == _reproject_latlons(batch_lats, batch_lons, f.epsg)
         v == _validate_points_lie_within_raster(r.x, r.y, batch_lats, batch_lons, f, f.res)
     IN  IF r.err # NoError
         THEN /\ error' = r.err
              /\ pc' = "raised"
              /\ open_handles' = ExitWith(open_handles, path, TRUE)
              /\ UNCHANGED <<xs, ys, rows, cols>>
         ELSE IF v # NoError
         THEN /\ error' = v
              /\ pc' = "raised"
              /\ open_handles' = ExitWith(open_handles, path, TRUE)
              /\ xs' = r.x
              /\ ys' = r.y
              /\ UNCHANGED <<rows, cols>>
         ELSE /\ xs' = r.x
              /\ ys' = r.y
              /\ rows' = PixelRows(f, r.y)
              /\ cols' = PixelCols(f, r.x)
              /\ pc' = "read"
              /\ UNCHANGED <<open_handles, error>>
  /\ UNCHANGED <<inputVars, fill_values, path_to_point_index, elevations_by_path,
                 pending, path, batch_lats, batch_lons, z_all, sampled,
                 elevations, unitVars>>

\* Lines 143-154: one pass of the read loop.  The windowed read may fail.
ReadPoint ==
  /\ pc = "read"
  /\ Len(z_all) < Len(rows)
  /\ LET k == Len(z_all) + 1
     IN  \E ok \in BOOLEAN :
           IF ok
           THEN /\ z_all' = Append(z_all, Read(path, rows[k], cols[k], interpolation))
                /\ UNCHANGED <<pc, open_handles, error>>
           ELSE /\ error' = IOError
                /\ pc' = "raised"
                /\ open_handles' = ExitWith(open_handles, path, TRUE)
                /\ z_all' = z_all
  /\ UNCHANGED <<inputVars, fill_values, path_to_point_index, elevations_by_path,
                 pending, path, batch_lats, batch_lons, xs, ys, rows, cols,
                 sampled, elevations, unitVars>>

\* Lines 155 and 205: the with block ends, z_all is returned and stored.
CloseTile ==
  /\ pc = "read"
  /\ Len(z_all) = Len(rows)
  /\ open_handles' = ExitWith(open_handles, path, FALSE)
  /\ elevations_by_path' = Put(elevations_by_path, path, z_all)
  /\ pending' = Tail(pending)
  /\ sampled' = sampled \cup {path}
  /\ pc' = "batch"
  /\ UNCHANGED <<inputVars, fill_values, path_to_point_index, tileVars,
                 elevations, error, unitVars>>

\* Lines 209-215: put the results back in input order and return.
Merge ==
  /\ pc = "batch"
  /\ pending = <<>>
  /\ elevations' = PutBack([i \in DOMAIN paths |-> NoneV], elevations_by_path,
                           path_to_point_index, 1)
  /\ pc' = "done"
  /\ UNCHANGED <<inputVars, fill_values, path_to_point_index, elevations_by_path,
                 pending, tileVars, open_handles, sampled, error, unitVars>>

Next == Group \/ CheckMissing \/ OpenTile \/ Locate \/ ReadPoint \/ CloseTile \/ Merge

Spec == Init /\ [][Next]_vars

SpecSingleTile == InitSingleTile /\ [][Next]_vars

\* ------------------------------ _validate_points_lie_within_raster, called directly

\* Bounding boxes handed to the validator (tests build theirs by hand): one
\* as rasterio reports a north-up raster, one with top below bottom.
Boxes ==
  {[left |-> 0, right |-> 4, bottom |-> 0, top |-> 4],
   [left |-> -1, right |-> 3, bottom |-> 3, top |-> -1]}

Resolutions == {<<2, 2>>, <<4, 2>>}

\* Display coordinates that have nothing to do with the projected ones.
OtherLats == {7, 8}
OtherLons == {9}

pipelineVars == <<lats, lons, interpolation, paths, fill_values, path_to_point_index,
                  elevations_by_path, pending, path, batch_lats, batch_lons, xs, ys,
                  rows, cols, z_all, open_handles, sampled, pc, elevations, error>>

NotEntered ==
  /\ lats = <<>>
  /\ lons = <<>>
  /\ interpolation = "nearest"
  /\ paths = <<>>
  /\ Entered
  /\ pc = "idle"

\* The validator is about to be called on projected points, with the points
\* themselves as display coordinates (tests, lines 35-72).
InitValidate ==
  /\ NotEntered
  /\ rcall = NoCall
  /\ \E vx \in Batches(XYCoords) :
       \E vy \in [DOMAIN vx -> XYCoords], b \in Boxes, r \in Resolutions :
         vcall = [state |-> "called", xs |-> vx, ys |-> vy, lats |-> vy, lons |-> vx,
                  bounds |-> b, res |-> r, ret |-> NoError,
                  lats2 |-> vy, lons2 |-> vx, ret2 |-> NoError]

ValidateCall ==
  /\ vcall.state = "called"
  /\ vcall' = [vcall EXCEPT
       !.state = "returned",
       !.ret = _validate_points_lie_within_raster(
                 vcall.xs, vcall.ys, vcall.lats, vcall.lons, vcall.bounds, vcall.res)]
  /\ UNCHANGED <<pipelineVars, rcall>>

\* The same projected points once more, with other display coordinates
\* (tests, lines 74-92).
ValidateOther ==
  /\ vcall.state = "returned"
  /\ \E la \in [DOMAIN vcall.xs -> OtherLats], lo \in [DOMAIN vcall.xs -> OtherLons] :
       vcall' = [vcall EXCEPT
         !.state = "again",
         !.lats2 = la,
         !.lons2 = lo,
         !.ret2 = _validate_points_lie_within_raster(
                    vcall.xs, vcall.ys, la, lo, vcall.bounds, vcall.res)]
  /\ UNCHANGED <<pipelineVars, rcall>>

NextValidate == ValidateCall \/ ValidateOther

SpecValidate == InitValidate /\ [][NextValidate]_vars

\* ---------------------------------------------- _reproject_latlons, called directly

\* EPSG codes around both ends of the accepted range, the WGS84 code, a UTM
\* code and a negative one.
EpsgCodes == {-1, 0, 1023, 1024, 4326, 32651, 32767, 32768}

InitReproject ==
  /\ NotEntered
  /\ vcall = NoCall
  /\ \E la \in Batches(Coords) :
       \E lo \in [DOMAIN la -> Coords], e \in EpsgCodes :
         rcall = [state |-> "called", lats |-> la, lons |-> lo, epsg |-> e,
                  ret |-> [err |-> NoError, x |-> <<>>, y |-> <<>>, proj_calls |-> 0]]

ReprojectCall ==
  /\ rcall.state = "called"
  /\ rcall' = [rcall EXCEPT
       !.state = "returned",
       !.ret = _reproject_latlons(rcall.lats, rcall.lons, rcall.epsg)]
  /\ UNCHANGED <<pipelineVars, vcall>>

NextReproject == ReprojectCall

SpecReproject == InitReproject /\ [][NextReproject]_vars

\* ------------------------------------------------------------------- properties

\* The position of point i inside the group of the points routed like it.
GroupRank(i) == Cardinality({j \in 1..i : paths[j] = paths[i]})

\* What the sampler reads for point i alone from the tile it is routed to.
SampledAlone(i) ==
  LET f == Raster[paths[i]]
      r == _reproject_latlons(<<lats[i]>>, <<lons[i]>>, f.epsg)
  IN  Read(paths[i], PixelRows(f, r.y)[1], PixelCols(f, r.x)[1], interpolation)

Declined(i) == paths[i] = None /\ fill_values[GroupRank(i)] = NoneV

\* C2: once the fill policy has declined a no-tile point, the call has raised
\* InputError quoting the declined point of lowest index, and returns nothing.
C2_FirstDeclinedPointQuoted ==
  (\E k \in DOMAIN fill_values : fill_values[k] = NoneV) =>
    /\ pc = "raised"
    /\ elevations = <<>>
    /\ LET first == CHOOSE i \in DOMAIN paths :
                      Declined(i) /\ \A j \in 1..(i - 1) : ~Declined(j)
       IN  error = InputError("is outside dataset bounds.", lats[first], lons[first])

\* Two different no-tile points, the first one filled, the second declined.
C2_Witness ==
  /\ pc = "raised"
  /\ Len(fill_values) = 2
  /\ fill_values[1] # NoneV
  /\ fill_values[2] = NoneV
  /\ <<lats[1], lons[1]>> # <<lats[2], lons[2]>>

RoutedTiles == {paths[i] : i \in DOMAIN paths} \ {None}

\* The exception the sampler raises for the sub-batch of tile p on its own,
\* reads aside.
TileError(p) ==
  LET indices == Get(GroupPoints(paths, 1, <<>>), p)
      f == Raster[p]
      r == _reproject_latlons(Take(lats, indices), Take(lons, indices), f.epsg)
  IN  IF r.err # NoError THEN r.err
      ELSE _validate_points_lie_within_raster(
             r.x, r.y, Take(lats, indices), Take(lons, indices), f, f.res)

\* C7: a call one of whose tiles makes the sampler fail never returns a list;
\* whatever exception was raised ended the call with no list returned, and an
\* InputError from a tile is the one the sampler raised for that tile.
C7_TileFailureFailsCall ==
  /\ (\E p \in RoutedTiles : TileError(p) # NoError) => pc # "done" /\ elevations = <<>>
  /\ error # NoError => pc = "raised" /\ elevations = <<>>
  /\ (error.kind = "InputError" /\ path # None) => error = TileError(path)

\* A tile fails validation or reprojection after another tile was sampled.
C7_Witness ==
  /\ pc = "raised"
  /\ error.kind = "InputError"
  /\ sampled # {}

\* C9: at most one raster handle is open, only while its tile is being
\* sampled, and none once the sampler or get_elevation has returned or raised.
C9_HandleReleased ==
  /\ Cardinality(open_handles) <= 1
  /\ pc \in {"locate", "read"} => open_handles = {path}
  /\ pc \notin {"locate", "read"} => open_handles = {}

\* A windowed read failed in the middle of a tile's batch.
C9_Witness ==
  /\ pc = "raised"
  /\ error = IOError
  /\ z_all # <<>>

\* C10: the points that reach the clip lie inside the inset extent, their
\* shifted pixel coordinates are within the array before the clip, so the clip
\* leaves them alone; the upper-left valid point maps to (0, 0) and the
\* lower-right one to (height-1, width-1).
C10_ClipIsIdentity ==
  pc = "read" =>
    LET f == Raster[path]
        lo_x == f.left + f.res[1] \div 2
        hi_x == f.right - f.res[1] \div 2
        lo_y == f.bottom + f.res[2] \div 2
        hi_y == f.top - f.res[2] \div 2
        last_row == (f.height - 1) * f.res[2]
        last_col == (f.width - 1) * f.res[1]
    IN  \A i \in DOMAIN xs :
          LET row == Shift(Index(f, xs[i], ys[i]).row, f.res[2])
              col == Shift(Index(f, xs[i], ys[i]).col, f.res[1])
          IN  /\ lo_x <= xs[i] /\ xs[i] <= hi_x /\ lo_y <= ys[i] /\ ys[i] <= hi_y
              /\ 0 <= row /\ row <= last_row /\ 0 <= col /\ col <= last_col
              /\ rows[i] = row /\ cols[i] = col
              /\ (xs[i] = lo_x /\ ys[i] = hi_y) => (rows[i] = 0 /\ cols[i] = 0)
              /\ (xs[i] = hi_x /\ ys[i] = lo_y) => (rows[i] = last_row /\ cols[i] = last_col)

\* Tile B sampled at its upper-left and at its lower-right valid point.
C10_Witness ==
  /\ pc = "read"
  /\ path = "B"
  /\ \E i, j \in DOMAIN xs :
       /\ xs[i] = 12 /\ ys[i] = 26
       /\ xs[j] = 14 /\ ys[j] = 22

\* The direct validator call has returned or raised.
Validated == vcall.state \in {"returned", "again"}

XViolation(i) ==
  \/ vcall.xs[i] < Min(vcall.bounds.left, vcall.bounds.right) + vcall.res[1] \div 2
  \/ vcall.xs[i] > Max(vcall.bounds.left, vcall.bounds.right) - vcall.res[1] \div 2

YViolation(i) ==
  \/ vcall.ys[i] < Min(vcall.bounds.top, vcall.bounds.bottom) + vcall.res[2] \div 2
  \/ vcall.ys[i] > Max(vcall.bounds.top, vcall.bounds.bottom) - vcall.res[2] \div 2

\* C3: the InputError quotes lats[i], lons[i] for i the lowest index that
\* violates the axis the message names.
C3_QuotesFirstOffender ==
  (Validated /\ vcall.ret # NoError) =>
    LET onLat == vcall.ret.msg = "latitude outside of raster bounds"
        Offends(i) == IF onLat THEN YViolation(i) ELSE XViolation(i)
        first == CHOOSE i \in DOMAIN vcall.xs :
                   Offends(i) /\ \A j \in 1..(i - 1) : ~Offends(j)
    IN  vcall.ret.lat = vcall.lats[first] /\ vcall.ret.lon = vcall.lons[first]

\* C4: the validator returns normally exactly when every point lies within
\* the bounds inset by half a pixel, edges included; otherwise it raises
\* InputError.
C4_PassesIffInsideInset ==
  Validated =>
    /\ vcall.ret = NoError <=> \A i \in DOMAIN vcall.xs : ~XViolation(i) /\ ~YViolation(i)
    /\ vcall.ret # NoError => vcall.ret.kind = "InputError"

\* A batch that passes with one point on the low inset edge of x and one on
\* its high inset edge.
C4_Witness ==
  /\ vcall.state = "returned"
  /\ vcall.ret = NoError
  /\ \E i, j \in DOMAIN vcall.xs :
       /\ vcall.xs[i] = Min(vcall.bounds.left, vcall.bounds.right) + vcall.res[1] \div 2
       /\ vcall.xs[j] = Max(vcall.bounds.left, vcall.bounds.right) - vcall.res[1] \div 2
       /\ vcall.xs[i] # vcall.xs[j]

\* C5: two calls on the same xs, ys, bounds and res with different lats and
\* lons both return, or both raise InputError naming the same axis.
C5_OutcomeIgnoresLatLon ==
  vcall.state = "again" =>
    /\ vcall.ret.kind = vcall.ret2.kind
    /\ vcall.ret.msg = vcall.ret2.msg

\* Both calls made, the first on points that pass, the second with display
\* coordinates that are all different from the first call's.
C5_Witness ==
  /\ vcall.state = "again"
  /\ vcall.xs # <<>>
  /\ vcall.ret = NoError
  /\ \A i \in DOMAIN vcall.xs :
       vcall.lats2[i] # vcall.lats[i] /\ vcall.lons2[i] # vcall.lons[i]

\* C6: with a y violation and an x violation in the batch the latitude error
\* is raised; the longitude error is raised only without any y violation.
C6_LatitudeFirst ==
  Validated =>
    /\ ((\E i \in DOMAIN vcall.xs : YViolation(i)) /\ (\E j \in DOMAIN vcall.xs : XViolation(j)))
         => vcall.ret.msg = "latitude outside of raster bounds"
    /\ vcall.ret.msg = "longitude outside of raster bounds"
         => \A i \in DOMAIN vcall.xs : ~YViolation(i)

\* The x violation comes first in the batch, the y violation on a later point.
C6_Witness ==
  /\ vcall.state = "returned"
  /\ \E i, j \in DOMAIN vcall.xs :
       /\ i < j
       /\ XViolation(i) /\ ~YViolation(i)
       /\ YViolation(j) /\ ~XViolation(j)

\* C8: every EPSG code outside 1024..32767 raises InputError without any
\* projection, and 4326 returns (lons, lats) without any projection.
C8_EpsgRangeAndIdentity ==
  rcall.state = "returned" =>
    /\ ~(1024 <= rcall.epsg /\ rcall.epsg <= 32767) =>
         /\ rcall.ret.err = InputError("Dataset has invalid projection.", 0, 0)
         /\ rcall.ret.proj_calls = 0
    /\ rcall.epsg = 4326 =>
         /\ rcall.ret.err = NoError
         /\ rcall.ret.x = rcall.lons
         /\ rcall.ret.y = rcall.lats
         /\ rcall.ret.proj_calls = 0

\* A code just above the range, on a batch that is not empty.
C8_Witness ==
  /\ rcall.state = "returned"
  /\ rcall.epsg = 32768
  /\ rcall.lats # <<>>

====
